---------------------------- MODULE Spec2Model ----------------------------
(***************************************************************************)
(* A model of src/main.py: the two tool functions (fetch_restaurant_data,  *)
(* calculate_overall_score), the three-stage chat sequence that main       *)
(* hands to initiate_chats, and the final-answer extraction of main.       *)
(*                                                                         *)
(* Text is a sequence of characters; a fixed wording of the program that   *)
(* no pattern looks into is written as one symbol.  A float with three     *)
(* decimals is an integer number of thousandths (5.367 is 5367).           *)
(* initiate_chats belongs to the chat library: its steps follow the        *)
(* design text, the entries it runs are those of chat_sequence.            *)
(***************************************************************************)
EXTENDS Integers, Sequences, FiniteSets, TLC

VARIABLES
    food_scores,              \* calculate_overall_score: argument
    customer_service_scores,  \* calculate_overall_score: argument
    score_pc,                 \* calculate_overall_score: "start" or the line that returned
    score_result,             \* calculate_overall_score: the dict returned
    file,                     \* restaurantes.txt: a status and its lines
    restaurant_name,          \* argument of both tool functions
    fetch_pc,                 \* fetch_restaurant_data: "start", the line that returned, or "raised"
    fetch_result,             \* fetch_restaurant_data: the dict returned
    user_query,               \* main: its argument
    pc,                       \* main: "chats" (in initiate_chats), "extract" or "done"
    stage,                    \* initiate_chats: the entry of chat_sequence being run
    turn,                     \* initiate_chats: turns of the exchange under way
    chat_history,             \* initiate_chats: messages of the exchange under way
    result,                   \* main: the list initiate_chats returns, as it grows
    stdout,                   \* main: the characters printed
    main_raised               \* main: TRUE once an exception has left main

vars == <<food_scores, customer_service_scores, score_pc, score_result,
          file, restaurant_name, fetch_pc, fetch_result,
          user_query, pc, stage, turn, chat_history, result, stdout, main_raised>>

scoreVars == <<food_scores, customer_service_scores, score_pc, score_result>>
fetchVars == <<file, fetch_pc, fetch_result>>
toolVars  == <<food_scores, customer_service_scores, score_pc, score_result,
               file, restaurant_name, fetch_pc, fetch_result>>
mainVars  == <<user_query, pc, stage, turn, chat_history, result, stdout, main_raised>>

\* Python's None, and the value of a variable that holds nothing yet.
None == "None"

\* The part of main is not running.
MainIdle ==
    /\ user_query = None
    /\ pc = None
    /\ stage = None
    /\ turn = None
    /\ chat_history = None
    /\ result = None
    /\ stdout = None
    /\ main_raised = None

(***************************************************************************)
(* Bounds of the model.                                                    *)
(***************************************************************************)
\* Longest list of scores passed to calculate_overall_score.
MaxLen == 2

\* Scores are on the scale 1-5 (docstring of calculate_overall_score).
MaxScore == 5

\* All sequences over S of length at most n.
SeqUpTo(S, n) == UNION {[1..k -> S] : k \in 0..n}

\* Restaurant names the tool functions are called with.
Names == { <<"B">>, <<"B", "x">>, <<"B", ".", "x">>, <<"b">> }

(***************************************************************************)
(* calculate_overall_score                                                 *)
(***************************************************************************)

\* One step of the schoolbook square root: p = <<root, remainder>> of the
\* digits read so far, pair = the next two decimal digits.
SqrtStep(p, pair) ==
    LET rem == p[2] * 100 + pair
        d   == CHOOSE x \in 0..9 :
                  /\ (20 * p[1] + x) * x <= rem
                  /\ \A y \in (x+1)..9 : (20 * p[1] + y) * y > rem
    IN  <<10 * p[1] + d, rem - (20 * p[1] + d) * d>>

\* <<floor(sqrt(n)), n - floor(sqrt(n))^2>>, two decimal digits at a time.
RECURSIVE SqrtRem(_)
SqrtRem(n) ==
    IF n = 0 THEN <<0, 0>> ELSE SqrtStep(SqrtRem(n \div 100), n % 100)

\* p carried on for k more decimal places of the root.
RECURSIVE SqrtDecimals(_, _)
SqrtDecimals(p, k) ==
    IF k = 0 THEN p ELSE SqrtDecimals(SqrtStep(p, 0), k - 1)

\* Decimal places of a thousandth kept by the arithmetic below.
GuardDigits == 3

\* 10^GuardDigits.
RECURSIVE Pow10(_)
Pow10(k) == IF k = 0 THEN 1 ELSE 10 * Pow10(k - 1)

\* math.sqrt(food_scores[i]**2 * customer_service_scores[i]) together with
\* its share of the constant factor 10 / sqrt(125) of line 71, in units of
\* 10^-GuardDigits thousandths.  sqrt(a) * 10 / sqrt(125) * 1000 is
\* sqrt(800000 * a), so the irrational factor is taken inside the root and
\* the result is floor(sqrt(800000 * a) * 10^GuardDigits).
ScoreComponent(f, s) ==
    SqrtDecimals(SqrtRem(800000 * (f * f * s)), GuardDigits)[1]

\* total_score of the loop of lines 67-69.
RECURSIVE TotalScore(_, _)
TotalScore(F, S) ==
    IF F = <<>> THEN 0
    ELSE ScoreComponent(Head(F), Head(S)) + TotalScore(Tail(F), Tail(S))

\* A variant of RoundedFinalScore that forgets the division by N.
RoundedFinalScoreNoN(F, S) ==
    LET unit == Pow10(GuardDigits)
    IN  (2 * TotalScore(F, S) + unit) \div (2 * unit)

\* round(final_score, 3) of line 73, in thousandths: the total divided by
\* n and rounded to the nearest thousandth.
RoundedFinalScore(F, S) ==
    LET n     == Len(F)
        unit  == Pow10(GuardDigits)
    IN  (2 * TotalScore(F, S) + n * unit) \div (2 * n * unit)

\* A variant of ScoreFallback that rejects only a food list that is longer.
ScoreFallbackLonger(F, S) == F = <<>> \/ S = <<>> \/ Len(F) > Len(S)

\* The guard of line 61.
ScoreFallback(F, S) == F = <<>> \/ S = <<>> \/ Len(F) # Len(S)

\* calculate_overall_score(restaurant_name, food_scores, customer_service_scores).
CalculateOverallScore ==
    /\ score_pc = "start"
    /\ IF ScoreFallback(food_scores, customer_service_scores)
       THEN /\ score_pc' = "return62"
            /\ score_result' = (restaurant_name :> 0)
       ELSE /\ score_pc' = "return73"
            /\ score_result' =
                 (restaurant_name :> RoundedFinalScore(food_scores, customer_service_scores))
    /\ UNCHANGED <<food_scores, customer_service_scores, restaurant_name, fetchVars, mainVars>>

InitScore ==
    /\ food_scores \in SeqUpTo(1..MaxScore, MaxLen)
    /\ customer_service_scores \in SeqUpTo(1..MaxScore, MaxLen)
    /\ restaurant_name \in Names
    /\ score_pc = "start"
    /\ score_result = None
    /\ file = None
    /\ fetch_pc = None
    /\ fetch_result = None
    /\ MainIdle

NextScore == CalculateOverallScore

SpecScore == InitScore /\ [][NextScore]_vars

(***************************************************************************)
(* fetch_restaurant_data                                                   *)
(***************************************************************************)

\* Most lines restaurantes.txt holds.
MaxLines == 2

\* The characters str.strip() removes.
Whitespace == {" ", "\n"}

\* The entity names the lines of the corpus start with.
LineNames == { <<"B">>, <<"B", "x">>, <<"B", ".", "x">> }

\* The lines of the corpus, as file.readlines() returns them: optional
\* leading blank, an entity name, the separating period or none, the review
\* text, and the line break.
CorpusLines ==
    { pad \o n \o sep \o text \o <<"\n">> :
        pad \in {<<>>, <<" ">>}, n \in LineNames, sep \in {<<".">>, <<>>},
        text \in { <<" ", "y", ".", "z", " ">>, <<"y">> } }

\* What open() and readlines() of lines 26-27 can meet: no such file
\* (FileNotFoundError), a file that cannot be opened or decoded (another
\* OSError or a UnicodeDecodeError), or the lines of the file.
Files ==
    { [status |-> "absent", lines |-> <<>>], [status |-> "unreadable", lines |-> <<>>] }
    \cup { [status |-> "ok", lines |-> ls] : ls \in SeqUpTo(CorpusLines, MaxLines) }

\* s without its leading whitespace.
RECURSIVE LStrip(_)
LStrip(s) ==
    IF s # <<>> /\ Head(s) \in Whitespace THEN LStrip(Tail(s)) ELSE s

\* s without its trailing whitespace.
RECURSIVE RStrip(_)
RStrip(s) ==
    IF s # <<>> /\ s[Len(s)] \in Whitespace
    THEN RStrip(SubSeq(s, 1, Len(s) - 1)) ELSE s

\* str.strip().
Strip(s) == RStrip(LStrip(s))

\* str.startswith(prefix).
StartsWith(s, prefix) ==
    /\ Len(s) >= Len(prefix)
    /\ SubSeq(s, 1, Len(prefix)) = prefix

\* s.split(sep, 1)[1]: what follows the first sep of s (s holds one).
RECURSIVE AfterFirst(_, _)
AfterFirst(s, sep) ==
    IF Head(s) = sep THEN Tail(s) ELSE AfterFirst(Tail(s), sep)

\* A variant of Reviews that tests the line as read, not stripped.
RECURSIVE ReviewsUnstripped(_, _)
ReviewsUnstripped(lines, name) ==
    IF lines = <<>> THEN <<>>
    ELSE LET line == Head(lines)
         IN  IF StartsWith(line, name \o <<".">>)
             THEN <<Strip(AfterFirst(line, "."))>> \o ReviewsUnstripped(Tail(lines), name)
             ELSE ReviewsUnstripped(Tail(lines), name)

\* The loop of lines 33-37 over the lines read.
RECURSIVE Reviews(_, _)
Reviews(lines, name) ==
    IF lines = <<>> THEN <<>>
    ELSE LET line == Strip(Head(lines))
         IN  IF StartsWith(line, name \o <<".">>)
             THEN <<Strip(AfterFirst(line, "."))>> \o Reviews(Tail(lines), name)
             ELSE Reviews(Tail(lines), name)

\* A variant of Caught for a function without the except clause.
CaughtNothing(status) == FALSE

\* The except clause of line 28: the failure of open() that is caught.
Caught(status) == status = "absent"

\* fetch_restaurant_data(restaurant_name).
FetchRestaurantData ==
    /\ fetch_pc = "start"
    /\ IF file.status = "ok"
       THEN /\ fetch_pc' = "return39"
            /\ fetch_result' = (restaurant_name :> Reviews(file.lines, restaurant_name))
       ELSE IF Caught(file.status)
       THEN /\ fetch_pc' = "return29"
            /\ fetch_result' = (restaurant_name :> <<>>)
       ELSE /\ fetch_pc' = "raised"
            /\ fetch_result' = fetch_result
    /\ UNCHANGED <<file, restaurant_name, scoreVars, mainVars>>

InitFetch ==
    /\ file \in Files
    /\ restaurant_name \in Names
    /\ fetch_pc = "start"
    /\ fetch_result = None
    /\ food_scores = None
    /\ customer_service_scores = None
    /\ score_pc = None
    /\ score_result = None
    /\ MainIdle

NextFetch == FetchRestaurantData

SpecFetch == InitFetch /\ [][NextFetch]_vars

(***************************************************************************)
(* main: the chat sequence, initiate_chats, and the final answer           *)
(***************************************************************************)

\* The queries main is run with.  A fixed wording is written as one symbol.
Queries ==
    { <<"d", "o", " ", "B", "?">>,
      <<"D", "A", " ", " ", "B", " ", "?">>,
      <<"Qual a nota", " ", "B">> }

\* The message of the first entry of chat_sequence (line 239).
FetchTask == <<"Recupere as avaliacoes para: ">> \o user_query

\* The message of the second entry of chat_sequence (line 245).
AnalyzeTask ==
    <<"Analise as avaliacoes e extraia scores de comida e atendimento usando a escala definida", ".">>

\* The message of the third entry of chat_sequence (line 251).
ScoreTask ==
    <<"Calcule a pontuacao final do restaurante usando os scores extraidos", ".">>

\* One entry of chat_sequence.
Chat(sender, recipient, message, max_turns) ==
    [sender |-> sender, recipient |-> recipient, message |-> message,
     max_turns |-> max_turns]

\* A variant of chat_sequence whose last two entries changed places.
chat_sequence_swapped ==
    << Chat("entrypoint_agent", "data_fetch_agent", FetchTask, 3),
       Chat("review_analysis_agent", "score_agent", ScoreTask, 3),
       Chat("data_fetch_agent", "review_analysis_agent", AnalyzeTask, 3) >>

\* A variant of chat_sequence whose last entry allows a fourth turn.
chat_sequence_4turns ==
    << Chat("entrypoint_agent", "data_fetch_agent", FetchTask, 3),
       Chat("data_fetch_agent", "review_analysis_agent", AnalyzeTask, 3),
       Chat("review_analysis_agent", "score_agent", ScoreTask, 4) >>

\* A variant of chat_sequence whose last entry repeats the second's message.
chat_sequence_pasted ==
    << Chat("entrypoint_agent", "data_fetch_agent", FetchTask, 3),
       Chat("data_fetch_agent", "review_analysis_agent", AnalyzeTask, 3),
       Chat("review_analysis_agent", "score_agent", AnalyzeTask, 3) >>

\* chat_sequence of lines 235-254.
chat_sequence ==
    << Chat("entrypoint_agent", "data_fetch_agent", FetchTask, 3),
       Chat("data_fetch_agent", "review_analysis_agent", AnalyzeTask, 3),
       Chat("review_analysis_agent", "score_agent", ScoreTask, 3) >>

\* A message content of None (a tool call holds no text): the sequence that
\* holds None in the place of characters.
NoText == <<None>>

\* What a recipient's reply can hold: no text or a text.
Replies == { NoText, <<"7", ".", "1", "2", "3">> }

\* What the sender answers a reply with.
Continuations == { <<"ok">> }

\* One message of a chat history.
Message(name, content) == [name |-> name, content |-> content]

\* The summary of a finished exchange: the text of its last message, empty
\* when that message holds no text.
Summary(history) ==
    LET content == history[Len(history)].content
    IN  IF content = NoText THEN <<>> ELSE content

\* sep.join(texts).
RECURSIVE Join(_, _)
Join(texts, sep) ==
    IF texts = <<>> THEN <<>>
    ELSE IF Len(texts) = 1 THEN Head(texts)
    ELSE Head(texts) \o sep \o Join(Tail(texts), sep)

\* The message that opens an exchange: the entry's message, followed, once
\* an exchange has finished, by the summaries of the finished exchanges.
InitMessage(chat, finished) ==
    IF finished = <<>> THEN chat.message
    ELSE chat.message \o <<"\n", "Context: ", "\n">>
           \o Join([i \in DOMAIN finished |-> finished[i].summary], <<"\n">>)

\* The exchange under way ends: its transcript joins the result, and the
\* next entry of the sequence, or the rest of main, is next.
FinishChat(history) ==
    /\ result' = Append(result,
                        [chat_id |-> stage, chat_history |-> history,
                         summary |-> Summary(history)])
    /\ chat_history' = <<>>
    /\ turn' = 0
    /\ stage' = stage + 1
    /\ pc' = IF stage = Len(chat_sequence) THEN "extract" ELSE "chats"

\* The sender of the next entry opens its exchange: the first turn begins.
StartChat ==
    /\ pc = "chats"
    /\ chat_history = <<>>
    /\ chat_history' =
         << Message(chat_sequence[stage].sender,
                    InitMessage(chat_sequence[stage], result)) >>
    /\ turn' = 1
    /\ UNCHANGED <<user_query, pc, stage, result, stdout, main_raised, toolVars>>

\* The recipient answers the sender's message; the answer that ends the
\* last turn allowed ends the exchange.
RecipientReplies ==
    /\ pc = "chats"
    /\ chat_history # <<>>
    /\ Len(chat_history) % 2 = 1
    /\ \E content \in Replies :
         LET history == Append(chat_history,
                               Message(chat_sequence[stage].recipient, content))
         IN  IF turn >= chat_sequence[stage].max_turns
             THEN FinishChat(history)
             ELSE /\ chat_history' = history
                  /\ UNCHANGED <<pc, stage, turn, result>>
    /\ UNCHANGED <<user_query, stdout, main_raised, toolVars>>

\* The sender answers the recipient: the next turn begins.
SenderContinues ==
    /\ pc = "chats"
    /\ chat_history # <<>>
    /\ Len(chat_history) % 2 = 0
    /\ \E content \in Continuations :
         chat_history' = Append(chat_history,
                                Message(chat_sequence[stage].sender, content))
    /\ turn' = turn + 1
    /\ UNCHANGED <<user_query, pc, stage, result, stdout, main_raised, toolVars>>

\* The agent whose answer is due gives none (the message it received is a
\* termination message): the exchange ends.  The opening message, a task of
\* chat_sequence, is none, so it is answered.
NoReply ==
    /\ pc = "chats"
    /\ Len(chat_history) >= 2
    /\ FinishChat(chat_history)
    /\ UNCHANGED <<user_query, stdout, main_raised, toolVars>>

Digits == {"0", "1", "2", "3", "4", "5", "6", "7", "8", "9"}

\* The places where r'(\d+\.\d{3})' matches text: <<first, last>> of a run
\* of digits, a point and three digits.
ScoreMatches(text) ==
    { m \in (DOMAIN text) \X (DOMAIN text) :
        /\ m[2] - 4 >= m[1]
        /\ \A k \in m[1]..(m[2] - 4) : text[k] \in Digits
        /\ text[m[2] - 3] = "."
        /\ \A k \in (m[2] - 2)..m[2] : text[k] \in Digits }

\* re.search(r'(\d+\.\d{3})', text).group(1): the leftmost match.
ScoreGroup(text) ==
    LET m == CHOOSE x \in ScoreMatches(text) :
                \A y \in ScoreMatches(text) : x[1] <= y[1]
    IN  SubSeq(text, m[1], m[2])

\* A character without its case (re.IGNORECASE), for the letters of do|da.
Lower(c) ==
    IF c = "D" THEN "d" ELSE IF c = "O" THEN "o" ELSE IF c = "A" THEN "a" ELSE c

\* The places where r'(?:do|da) ([^?]+)\?' matches query: <<first, last>>
\* of "do " or "da ", one or more characters other than "?", and "?".
RestaurantMatches(query) ==
    { m \in (DOMAIN query) \X (DOMAIN query) :
        /\ m[2] - 4 >= m[1]
        /\ Lower(query[m[1]]) = "d"
        /\ Lower(query[m[1] + 1]) \in {"o", "a"}
        /\ query[m[1] + 2] = " "
        /\ \A k \in (m[1] + 3)..(m[2] - 1) : query[k] # "?"
        /\ query[m[2]] = "?" }

\* re.search(r'(?:do|da) ([^?]+)\?', query).group(1): the leftmost match.
RestaurantGroup(query) ==
    LET m == CHOOSE x \in RestaurantMatches(query) :
                \A y \in RestaurantMatches(query) : x[1] <= y[1]
    IN  SubSeq(query, m[1] + 3, m[2] - 1)

\* print(text).
Printed(text) == stdout \o text \o <<"\n">>

\* The sentence of line 272.
Answer(restaurant, score) ==
    <<"A avaliacao media do ">> \o restaurant \o <<" e ">> \o score \o <<".">>

\* The text of line 276.
CouldNotProcess == <<"Nao foi possivel processar a consulta adequadamente.">>

\* Lines 260-276 of main: the final answer is printed.
Extract ==
    /\ pc = "extract"
    /\ pc' = "done"
    /\ IF result = <<>>
       THEN UNCHANGED <<stdout, main_raised>>
       ELSE LET final_chat == result[Len(result)]
            IN  IF final_chat.chat_history = <<>>
                THEN /\ stdout' = Printed(CouldNotProcess)
                     /\ UNCHANGED main_raised
                ELSE LET last_message ==
                           final_chat.chat_history[Len(final_chat.chat_history)].content
                     IN  IF last_message = NoText
                         THEN \* re.search raises TypeError
                              /\ main_raised' = TRUE
                              /\ UNCHANGED stdout
                         ELSE /\ UNCHANGED main_raised
                              /\ stdout' =
                                   IF /\ ScoreMatches(last_message) # {}
                                      /\ RestaurantMatches(user_query) # {}
                                   THEN Printed(Answer(Strip(RestaurantGroup(user_query)),
                                                       ScoreGroup(last_message)))
                                   ELSE Printed(last_message)
    /\ UNCHANGED <<user_query, stage, turn, chat_history, result, toolVars>>

InitMain ==
    /\ user_query \in Queries
    /\ pc = "chats"
    /\ stage = 1
    /\ turn = 0
    /\ chat_history = <<>>
    /\ result = <<>>
    /\ stdout = <<>>
    /\ main_raised = FALSE
    /\ restaurant_name = None
    /\ food_scores = None
    /\ customer_service_scores = None
    /\ score_pc = None
    /\ score_result = None
    /\ file = None
    /\ fetch_pc = None
    /\ fetch_result = None

NextMain ==
    \/ StartChat
    \/ RecipientReplies
    \/ SenderContinues
    \/ NoReply
    \/ Extract

SpecMain == InitMain /\ [][NextMain]_vars

\* Every call of main returns or raises: a step that can be taken is taken.
FairSpecMain == SpecMain /\ WF_vars(NextMain)

(***************************************************************************)
(* Claims about the chat sequence, checked under SpecMain and FairSpecMain.*)
(***************************************************************************)

\* The stages in order: who opens each exchange and who answers.
StageAgents ==
    << <<"entrypoint_agent", "data_fetch_agent">>,
       <<"data_fetch_agent", "review_analysis_agent">>,
       <<"review_analysis_agent", "score_agent">> >>

\* history is an exchange of stage k: its sender opens, and the two agents
\* of the stage alternate.
IsTranscriptOf(history, k) ==
    /\ history # <<>>
    /\ \A i \in DOMAIN history :
         history[i].name = StageAgents[k][IF i % 2 = 1 THEN 1 ELSE 2]

\* C1: the stages fetch, analyze, score run in list order, a stage starts
\* only when the transcripts of all stages before it are complete, and the
\* run yields exactly three transcripts, the k-th being that of stage k.
C1_StagesInOrder ==
    /\ Len(result) <= 3
    /\ \A k \in DOMAIN result :
         /\ result[k].chat_id = k
         /\ IsTranscriptOf(result[k].chat_history, k)
    /\ pc = "chats" => stage = Len(result) + 1 /\ stage <= 3
    /\ chat_history # <<>> => IsTranscriptOf(chat_history, Len(result) + 1)
    /\ pc \in {"extract", "done"} => Len(result) = 3

\* C1 witness: the run has ended with three transcripts, each an exchange of
\* at least one turn.
C1_Witness ==
    /\ pc = "done"
    /\ Len(result) = 3
    /\ \A k \in 1..3 : Len(result[k].chat_history) >= 2

\* C2: no exchange goes beyond three turns (a turn is one message of the
\* sender and the answer to it), whatever the agents answer, and the run of
\* the three exchanges comes to its end.
C2_BoundedTurnsAndTermination ==
    /\ [](/\ turn <= 3
          /\ Len(chat_history) <= 2 * 3
          /\ \A k \in DOMAIN result : Len(result[k].chat_history) <= 2 * 3)
    /\ <>(pc # "chats")

\* C2 witness: the run has ended, one exchange by its third turn and one
\* before, on an answer that was not given.
C2_Witness ==
    /\ pc = "done"
    /\ Len(result[1].chat_history) = 6
    /\ Len(result[2].chat_history) = 3

\* The content of the last message of an exchange.
LastContent(history) == history[Len(history)].content

\* text ends with suffix.
EndsWith(text, suffix) ==
    /\ Len(text) >= Len(suffix)
    /\ SubSeq(text, Len(text) - Len(suffix) + 1, Len(text)) = suffix

\* The message that opened each exchange after the first, finished or
\* under way, paired with the transcript of the stage before it.
Openings ==
    { <<k, result[k].chat_history[1].content, result[k - 1]>> :
        k \in (DOMAIN result) \ {1} }
    \cup (IF pc = "chats" /\ chat_history # <<>> /\ stage > 1
          THEN { <<stage, chat_history[1].content, result[stage - 1]>> }
          ELSE {})

HoldsThreeDecimals(text) ==
    /\ text # NoText
    /\ \E i \in DOMAIN text :
         /\ i + 4 <= Len(text)
         /\ text[i] \in Digits
         /\ text[i + 1] = "."
         /\ \A k \in (i + 2)..(i + 4) : text[k] \in Digits

\* query holds "do " or "da " in either case, then text without "?", then "?".
HoldsEntity(query) ==
    \E i \in DOMAIN query : \E j \in DOMAIN query :
        /\ j >= i + 4
        /\ Lower(query[i]) = "d"
        /\ Lower(query[i + 1]) \in {"o", "a"}
        /\ query[i + 2] = " "
        /\ query[j] = "?"
        /\ \A k \in (i + 3)..(j - 1) : query[k] # "?"

\* The line print() writes for a value.
LineOf(content) == (IF content = NoText THEN <<"None">> ELSE content) \o <<"\n">>

\* C8: the sentence built from the entity and the score is printed exactly
\* when the last message of the final transcript holds a number with three
\* decimals and the query holds the entity; otherwise the last message is
\* printed as it is; a final transcript without messages gives the notice.
C8_ExtractionCases ==
    pc = "done" =>
        LET history == result[Len(result)].chat_history
        IN  IF history = <<>> THEN stdout = LineOf(CouldNotProcess)
            ELSE IF HoldsThreeDecimals(LastContent(history)) /\ HoldsEntity(user_query)
            THEN /\ stdout # LineOf(LastContent(history))
                 /\ \E restaurant \in SeqUpTo({"B"}, 1) : \E score \in Replies \ {NoText} :
                      stdout = LineOf(Answer(restaurant, score))
            ELSE stdout = LineOf(LastContent(history))

\* The number of lines in the characters printed.
Lines(printed) == Cardinality({i \in DOMAIN printed : printed[i] = "\n"})

\* C9: whatever initiate_chats returned, the last part of main does not
\* raise and prints exactly one line.
C9_ExtractionPrintsOneLine ==
    pc = "done" => main_raised = FALSE /\ Lines(stdout) = 1

(***************************************************************************)
(* Claims about fetch_restaurant_data, checked under SpecFetch.            *)
(***************************************************************************)

\* The number of whitespace characters line begins with.
Lead(line) ==
    CHOOSE i \in 0..Len(line) :
        /\ \A k \in 1..i : line[k] \in Whitespace
        /\ i = Len(line) \/ line[i + 1] \notin Whitespace

\* The line, whitespace apart, starts with name and a period.
Belongs(line, name) ==
    LET lead == Lead(line)
    IN  /\ lead + Len(name) + 1 <= Len(line)
        /\ \A k \in 1..Len(name) : line[lead + k] = name[k]
        /\ line[lead + Len(name) + 1] = "."

\* The places in the file of the lines that belong to name.
MatchingLines(name) == {i \in DOMAIN file.lines : Belongs(file.lines[i], name)}

\* The place in the file of the k-th line that belongs to name.
KthMatching(name, k) ==
    CHOOSE i \in MatchingLines(name) :
        Cardinality({j \in MatchingLines(name) : j < i}) = k - 1

\* text is what follows some period of line, whitespace at both ends apart.
TrimmedAfterAPeriod(text, line) ==
    \E j \in DOMAIN line :
        /\ line[j] = "."
        /\ text = Strip(SubSeq(line, j + 1, Len(line)))

\* C6: the dict returned has the name as its only key, and its list holds
\* one review for each line whose trimmed form starts with name + ".", in
\* file order, and none for any other line (so none for a line of "Bx"
\* when "B" is fetched).
C6_OneReviewPerMatchingLine ==
    fetch_pc = "return39" =>
        LET R == fetch_result[restaurant_name]
        IN  /\ DOMAIN fetch_result = {restaurant_name}
            /\ Len(R) = Cardinality(MatchingLines(restaurant_name))
            /\ \A k \in 1..Len(R) :
                 TrimmedAfterAPeriod(R[k], file.lines[KthMatching(restaurant_name, k)])

\* C6 witness: "B" was fetched from a file whose first line is indented
\* and belongs to "Bx" and whose second line belongs to "B"; only the
\* second line's review came back.
C6_Witness ==
    /\ fetch_pc = "return39"
    /\ restaurant_name = <<"B">>
    /\ file.lines = << <<" ", "B", "x", ".", "y", "\n">>,
                      <<" ", "B", ".", " ", "y", ".", "z", " ", "\n">> >>
    /\ fetch_result[restaurant_name] = << <<"y", ".", "z">> >>

\* No line of the file belongs to name.
NoLineBelongs(name) == MatchingLines(name) = {}

C10_TextAfterThePeriodOfThePrefix ==
    fetch_pc = "return39" =>
        LET R == fetch_result[restaurant_name]
        IN  \A k \in 1..Len(R) :
              LET line == file.lines[KthMatching(restaurant_name, k)]
              IN  R[k] = Strip(SubSeq(line,
                                      Lead(line) + Len(restaurant_name) + 2,
                                      Len(line)))

(***************************************************************************)
(* Claims about calculate_overall_score, checked under SpecScore.          *)
(***************************************************************************)

\* C4: calculate_overall_score returns {name: 0.000} whenever F is empty, S
\* is empty or the lengths differ, and takes that fallback return for no
\* other pair of lists.
C4_FallbackExactlyOnBadInput ==
    score_pc # "start" =>
        /\ score_pc \in {"return62", "return73"}
        /\ DOMAIN score_result = {restaurant_name}
        /\ (score_pc = "return62") <=>
              \/ Len(food_scores) = 0
              \/ Len(customer_service_scores) = 0
              \/ Len(food_scores) # Len(customer_service_scores)
        /\ score_pc = "return62" => score_result[restaurant_name] = 0

\* C4 witness: two non-empty lists of different lengths took the fallback.
C4_Witness ==
    /\ score_pc = "return62"
    /\ Len(food_scores) = 2
    /\ Len(customer_service_scores) = 1
    /\ score_result[restaurant_name] = 0

\* Every pair (food_scores[i], customer_service_scores[i]) is (f, s).
AllPairs(f, s) ==
    /\ \A i \in DOMAIN food_scores : food_scores[i] = f
    /\ \A i \in DOMAIN customer_service_scores : customer_service_scores[i] = s

\* C5: for non-empty lists of equal length over 1..5 the rounded score lies
\* in [0.894, 10.000]; it is 0.894 when every pair is (1,1) and 10.000 when
\* every pair is (5,5).
C5_ScoreRange ==
    score_pc = "return73" =>
        /\ score_result[restaurant_name] \in 894..10000
        /\ AllPairs(1, 1) => score_result[restaurant_name] = 894
        /\ AllPairs(MaxScore, MaxScore) => score_result[restaurant_name] = 10000

\* C5 witness: a two-element call with every pair (5,5) returned 10.000.
C5_Witness ==
    /\ score_pc = "return73"
    /\ Len(food_scores) = 2
    /\ AllPairs(MaxScore, MaxScore)
    /\ score_result[restaurant_name] = 10000

=============================================================================
